---- MODULE Spec2Model ----
(***************************************************************************)
(* The audio player slice of the store (redux/slices/AudioPlayer/state.ts):*)
(* the six fields of AudioState, the slice's reducers, the resetSettings   *)
(* extra reducer and the three async thunks loadAndPlayAudioFile,          *)
(* setReciterAndPauseAudio and playFrom.  A thunk runs atomically up to    *)
(* its await of getChapterAudioFile (JavaScript is single threaded); the   *)
(* code after the await runs atomically when the fetch settles.  Fetches   *)
(* of different thunk invocations settle in any order.                     *)
(***************************************************************************)
EXTENDS Integers, Sequences, FiniteSets, TLC

(* ------------------------------ bounds --------------------------------- *)
\* chapters are 1..MaxChapter
MaxChapter == 2
\* reciters other than the default one have ids 1..MaxReciterId
MaxReciterId == 1
\* timestamps (milliseconds) are the multiples 1500, 3000, ... of 1500
MaxTimestampStep == 1
\* at most MaxPending fetches are in flight at once
MaxPending == 2

(* ------------------------------ values --------------------------------- *)
\* enum AudioFileStatus
AudioFileStatus == {"Ready", "Loading", "NoFile"}

\* the default reciter of ./defaultData
DEFAULT_RECITER == [id |-> 7]

Reciters == {DEFAULT_RECITER} \cup {[id |-> i] : i \in 1..MaxReciterId}

Chapters == 1..MaxChapter

Timestamps == {1500 * k : k \in 1..MaxTimestampStep}

\* JavaScript's null (AudioState.audioFile starts as null)
null == <<>>

\* the audio file the provider serves for a reciter and a chapter
getChapterAudioFile(reciterId, chapter) ==
  [chapterId |-> chapter, reciterId |-> reciterId]

AudioFiles ==
  {getChapterAudioFile(r.id, c) : r \in Reciters, c \in Chapters}

(* ------------------------------ state ---------------------------------- *)
VARIABLES
  audioPlayerState,  \* the slice's state, an AudioState
  pending,           \* the thunks suspended at their await, in dispatch order
  lastStep,          \* the step taken last and the calls its code made, in order
  tafsirBody         \* the state of a mounted TafsirBody, null when none is

vars == <<audioPlayerState, pending, lastStep, tafsirBody>>

\* an initial state without a reciter
initialStateWithoutReciter ==
  [enableAutoScrolling |-> TRUE,
   isPlaying |-> FALSE,
   audioFile |-> null,
   reciter |-> null,
   audioFileStatus |-> "NoFile",
   isMobileMinimizedForScrolling |-> FALSE]

initialState ==
  [enableAutoScrolling |-> TRUE,
   isPlaying |-> FALSE,
   audioFile |-> null,
   reciter |-> DEFAULT_RECITER,
   audioFileStatus |-> "NoFile",
   isMobileMinimizedForScrolling |-> FALSE]

(* ----------------------------- selectors ------------------------------- *)
selectReciter(state) == state.reciter

selectAudioFile(state) == state.audioFile

(* ------------------------------ reducers ------------------------------- *)
setIsPlaying(state, payload) == [state EXCEPT !.isPlaying = payload]

setIsMobileMinimizedForScrolling(state, payload) ==
  [state EXCEPT !.isMobileMinimizedForScrolling = payload]

setReciter(state, payload) == [state EXCEPT !.reciter = payload]

\* a setAudioFile that also marks the file as ready
setAudioFileAndReady(state, payload) ==
  [state EXCEPT !.audioFile = payload, !.audioFileStatus = "Ready"]

setAudioFile(state, payload) == [state EXCEPT !.audioFile = payload]

setAudioStatus(state, payload) == [state EXCEPT !.audioFileStatus = payload]

\* a setEnableAutoScrolling that writes the flag next to its own
setEnableAutoScrollingOfMinimized(state, payload) ==
  [state EXCEPT !.isMobileMinimizedForScrolling = payload]

setEnableAutoScrolling(state, payload) ==
  [state EXCEPT !.enableAutoScrolling = payload]

\* a resetAudioFile that also stops the playback flag
resetAudioFileAndStop(state) ==
  [state EXCEPT !.audioFile = initialState.audioFile,
                !.audioFileStatus = initialState.audioFileStatus,
                !.isPlaying = FALSE]

\* a resetAudioFile that clears the file and leaves the status
resetAudioFileKeepingStatus(state) ==
  [state EXCEPT !.audioFile = initialState.audioFile]

resetAudioFile(state) ==
  [state EXCEPT !.audioFile = initialState.audioFile,
                !.audioFileStatus = initialState.audioFileStatus]

\* a resetSettings that resets the whole slice
resetSettingsToInitialState(state) == initialState

\* extraReducers: builder.addCase(resetSettings, ...)
resetSettings(state) == [state EXCEPT !.reciter = DEFAULT_RECITER]

(* ------------------- the calls a thunk's code makes -------------------- *)
\* A thunk's run is a context: the store's state and the calls made so far.
\* thunkAPI.dispatch(setAudioStatus(status))
dispatchSetAudioStatus(ctx, status) ==
  [state |-> setAudioStatus(ctx.state, status),
   calls |-> Append(ctx.calls, [call |-> "setAudioStatus", status |-> status])]

\* thunkAPI.dispatch(setReciter(reciter))
dispatchSetReciter(ctx, reciter) ==
  [state |-> setReciter(ctx.state, reciter),
   calls |-> Append(ctx.calls, [call |-> "setReciter", reciter |-> reciter])]

\* thunkAPI.dispatch(setAudioFile(audioFile))
dispatchSetAudioFile(ctx, file) ==
  [state |-> setAudioFile(ctx.state, file),
   calls |-> Append(ctx.calls, [call |-> "setAudioFile", audioFile |-> file])]

triggerPlayAudio(ctx) ==
  [ctx EXCEPT !.calls = Append(@, [call |-> "triggerPlayAudio"])]

triggerPauseAudio(ctx) ==
  [ctx EXCEPT !.calls = Append(@, [call |-> "triggerPauseAudio"])]

triggerSetCurrentTime(ctx, seconds) ==
  [ctx EXCEPT !.calls =
     Append(@, [call |-> "triggerSetCurrentTime", seconds |-> seconds])]

\* the call of getChapterAudioFile(reciterId, chapter), which the thunk awaits
callGetChapterAudioFile(ctx, reciterId, chapter) ==
  [ctx EXCEPT !.calls =
     Append(@, [call |-> "getChapterAudioFile",
                reciterId |-> reciterId, chapterId |-> chapter])]

\* timestamp / 1000: the seconds as whole seconds and remaining milliseconds
timestampInSeconds(timestamp) ==
  [whole |-> timestamp \div 1000, millis |-> timestamp % 1000]

\* the thunk suspended at its await: what its continuation still reads
Suspended(thunk, reciterId, chapter, timestamp) ==
  [thunk |-> thunk, reciterId |-> reciterId, chapterId |-> chapter,
   timestamp |-> timestamp, overtaken |-> FALSE]

\* the record of a step: the operation, its phase and the calls it made.
\* A phase is "done" (ran to its end without awaiting), "awaiting" (suspended
\* at its await), "threw" (ended by an exception of its own code), "resumed"
\* (ran to its end after the fetch resolved) or "rejected" (ended by the
\* rejection of the fetch).
\* stale: a fetch dispatched later had already resolved when this one settled.
\* direct: the fetch settled right after the step that issued it, no other
\* step in between.
\* afterReset: the thunk resumed right after a resetAudioFile, the step
\* taken before this one.
Step(op, phase, calls, stale, direct) ==
  [op |-> op, phase |-> phase, calls |-> calls, stale |-> stale,
   direct |-> direct,
   afterReset |-> phase = "resumed" /\ lastStep.op = "resetAudioFile"]

\* a step of a reducer dispatched from outside the thunks
ReducerStep(op) == Step(op, "done", <<>>, FALSE, FALSE)

\* how far a thunk's code got in one go: its context, its phase and, when it
\* awaits, the suspended thunk
Run(ctx, phase, request) == [ctx |-> ctx, phase |-> phase, request |-> request]

(* ------------------------------- thunks -------------------------------- *)
\* a loadAndPlayAudioFile that plays the loaded file only when it is also of
\* the current reciter
loadAndPlayAudioFileOfReciter(state, chapter) ==
  LET ctx0 == [state |-> state, calls |-> <<>>]
      currentAudioFile == selectAudioFile(state)
      reciter == selectReciter(state)
  IN IF /\ currentAudioFile # null
        /\ currentAudioFile.chapterId = chapter
        /\ currentAudioFile.reciterId = reciter.id
     THEN Run(triggerPlayAudio(ctx0), "done", null)
     ELSE LET ctx1 == dispatchSetAudioStatus(ctx0, "Loading")
          IN Run(callGetChapterAudioFile(ctx1, reciter.id, chapter), "awaiting",
                 Suspended("loadAndPlayAudioFile", reciter.id, chapter, 0))

\* loadAndPlayAudioFile up to its return or its await
loadAndPlayAudioFile(state, chapter) ==
  LET ctx0 == [state |-> state, calls |-> <<>>]
      currentAudioFile == selectAudioFile(state)
  IN IF currentAudioFile # null /\ currentAudioFile.chapterId = chapter
     THEN Run(triggerPlayAudio(ctx0), "done", null)
     ELSE LET ctx1 == dispatchSetAudioStatus(ctx0, "Loading")
              reciter == selectReciter(ctx1.state)
          IN Run(callGetChapterAudioFile(ctx1, reciter.id, chapter), "awaiting",
                 Suspended("loadAndPlayAudioFile", reciter.id, chapter, 0))

\* a loadAndPlayAudioFile that plays before it stores the file
loadAndPlayAudioFileResumePlayingFirst(state, audioFile) ==
  LET ctx0 == [state |-> state, calls |-> <<>>]
  IN dispatchSetAudioFile(triggerPlayAudio(ctx0), audioFile)

\* loadAndPlayAudioFile after its await
loadAndPlayAudioFileResume(state, audioFile) ==
  LET ctx0 == [state |-> state, calls |-> <<>>]
  IN triggerPlayAudio(dispatchSetAudioFile(ctx0, audioFile))

\* a setReciterAndPauseAudio that sets the reciter before it pauses
setReciterAndPauseAudioReciterFirst(state, reciter) ==
  LET ctx0 == [state |-> state, calls |-> <<>>]
      ctx1 == dispatchSetAudioStatus(ctx0, "Loading")
      ctx2 == dispatchSetReciter(ctx1, reciter)
      ctx3 == triggerPauseAudio(ctx2)
      current == selectAudioFile(ctx3.state)
  IN IF current = null
     THEN Run(ctx3, "threw", null)
     ELSE Run(callGetChapterAudioFile(ctx3, reciter.id, current.chapterId),
              "awaiting",
              Suspended("setReciterAndPauseAudio", reciter.id,
                        current.chapterId, 0))

\* a setReciterAndPauseAudio that checks for the audio file before it
\* changes anything
setReciterAndPauseAudioCheckingFirst(state, reciter) ==
  LET ctx0 == [state |-> state, calls |-> <<>>]
      ctx1 == dispatchSetAudioStatus(ctx0, "Loading")
      ctx2 == triggerPauseAudio(ctx1)
      ctx3 == dispatchSetReciter(ctx2, reciter)
      current == selectAudioFile(state)
  IN IF current = null
     THEN Run(ctx0, "threw", null)
     ELSE Run(callGetChapterAudioFile(ctx3, reciter.id, current.chapterId),
              "awaiting",
              Suspended("setReciterAndPauseAudio", reciter.id,
                        current.chapterId, 0))

\* setReciterAndPauseAudio up to its await; reading chapterId of a null audio
\* file throws a TypeError before getChapterAudioFile is called
setReciterAndPauseAudio(state, reciter) ==
  LET ctx0 == [state |-> state, calls |-> <<>>]
      ctx1 == dispatchSetAudioStatus(ctx0, "Loading")
      ctx2 == triggerPauseAudio(ctx1)
      ctx3 == dispatchSetReciter(ctx2, reciter)
      current == selectAudioFile(ctx3.state)
  IN IF current = null
     THEN Run(ctx3, "threw", null)
     ELSE Run(callGetChapterAudioFile(ctx3, reciter.id, current.chapterId),
              "awaiting",
              Suspended("setReciterAndPauseAudio", reciter.id,
                        current.chapterId, 0))

\* setReciterAndPauseAudio after its await
setReciterAndPauseAudioResume(state, audioFile) ==
  dispatchSetAudioFile([state |-> state, calls |-> <<>>], audioFile)

\* an end of playFrom that plays before it seeks
playFromPlayAndSeek(ctx, timestamp) ==
  triggerSetCurrentTime(triggerPlayAudio(ctx), timestampInSeconds(timestamp))

\* the end of playFrom, common to its two branches
playFromSeekAndPlay(ctx, timestamp) ==
  triggerPlayAudio(triggerSetCurrentTime(ctx, timestampInSeconds(timestamp)))

\* a playFrom that fetches only when the chapter's file is not loaded
playFromIgnoringReciter(state, timestamp, chapterId, reciterId) ==
  LET ctx0 == [state |-> state, calls |-> <<>>]
      reciter == selectReciter(state)
      audioFile == selectAudioFile(state)
  IN IF audioFile = null \/ audioFile.chapterId # chapterId
     THEN LET ctx1 == dispatchSetAudioStatus(ctx0, "Loading")
          IN Run(callGetChapterAudioFile(ctx1, reciter.id, chapterId),
                 "awaiting",
                 Suspended("playFrom", reciter.id, chapterId, timestamp))
     ELSE Run(playFromSeekAndPlay(ctx0, timestamp), "done", null)

\* playFrom up to its end or its await
playFrom(state, timestamp, chapterId, reciterId) ==
  LET ctx0 == [state |-> state, calls |-> <<>>]
      reciter == selectReciter(state)
      audioFile == selectAudioFile(state)
  IN IF audioFile = null \/ audioFile.chapterId # chapterId
          \/ reciter.id # reciterId
     THEN LET ctx1 == dispatchSetAudioStatus(ctx0, "Loading")
          IN Run(callGetChapterAudioFile(ctx1, reciter.id, chapterId),
                 "awaiting",
                 Suspended("playFrom", reciter.id, chapterId, timestamp))
     ELSE Run(playFromSeekAndPlay(ctx0, timestamp), "done", null)

\* a playFrom that marks the file as ready once it is stored
playFromResumeSettingReady(state, audioFile, timestamp) ==
  LET ctx0 == [state |-> state, calls |-> <<>>]
      ctx1 == dispatchSetAudioFile(ctx0, audioFile)
  IN playFromSeekAndPlay(dispatchSetAudioStatus(ctx1, "Ready"), timestamp)

\* playFrom after its await
playFromResume(state, audioFile, timestamp) ==
  LET ctx0 == [state |-> state, calls |-> <<>>]
  IN playFromSeekAndPlay(dispatchSetAudioFile(ctx0, audioFile), timestamp)

Init ==
  /\ audioPlayerState = initialState
  /\ pending = <<>>
  /\ lastStep = ReducerStep("init")
  /\ tafsirBody = null

(* ------------------- reducers dispatched by components ----------------- *)
DispatchSetIsPlaying ==
  \E payload \in BOOLEAN :
    /\ audioPlayerState' = setIsPlaying(audioPlayerState, payload)
    /\ lastStep' = ReducerStep("setIsPlaying")
    /\ UNCHANGED <<pending, tafsirBody>>

DispatchSetIsMobileMinimizedForScrolling ==
  \E payload \in BOOLEAN :
    /\ audioPlayerState' =
         setIsMobileMinimizedForScrolling(audioPlayerState, payload)
    /\ lastStep' = ReducerStep("setIsMobileMinimizedForScrolling")
    /\ UNCHANGED <<pending, tafsirBody>>

DispatchSetReciter ==
  \E payload \in Reciters :
    /\ audioPlayerState' = setReciter(audioPlayerState, payload)
    /\ lastStep' = ReducerStep("setReciter")
    /\ UNCHANGED <<pending, tafsirBody>>

DispatchSetAudioFile ==
  \E payload \in AudioFiles \cup {null} :
    /\ audioPlayerState' = setAudioFile(audioPlayerState, payload)
    /\ lastStep' = ReducerStep("setAudioFile")
    /\ UNCHANGED <<pending, tafsirBody>>

DispatchSetAudioStatus ==
  \E payload \in AudioFileStatus :
    /\ audioPlayerState' = setAudioStatus(audioPlayerState, payload)
    /\ lastStep' = ReducerStep("setAudioStatus")
    /\ UNCHANGED <<pending, tafsirBody>>

DispatchSetEnableAutoScrolling ==
  \E payload \in BOOLEAN :
    /\ audioPlayerState' = setEnableAutoScrolling(audioPlayerState, payload)
    /\ lastStep' = ReducerStep("setEnableAutoScrolling")
    /\ UNCHANGED <<pending, tafsirBody>>

\* a resetAudioFile that cancels the fetches in flight
DispatchResetAudioFileCancelling ==
  /\ audioPlayerState' = resetAudioFile(audioPlayerState)
  /\ lastStep' = ReducerStep("resetAudioFile")
  /\ pending' = <<>>
  /\ UNCHANGED tafsirBody

DispatchResetAudioFile ==
  /\ audioPlayerState' = resetAudioFile(audioPlayerState)
  /\ lastStep' = ReducerStep("resetAudioFile")
  /\ UNCHANGED <<pending, tafsirBody>>

DispatchResetSettings ==
  /\ audioPlayerState' = resetSettings(audioPlayerState)
  /\ lastStep' = ReducerStep("resetSettings")
  /\ UNCHANGED <<pending, tafsirBody>>

(* -------------------------- thunks dispatched -------------------------- *)
\* the step of a thunk from its dispatch to its return, throw or await
Launch(op, run) ==
  /\ run.phase = "awaiting" => Len(pending) < MaxPending
  /\ audioPlayerState' = run.ctx.state
  /\ pending' = IF run.phase = "awaiting"
                THEN Append(pending, run.request) ELSE pending
  /\ lastStep' = Step(op, run.phase, run.ctx.calls, FALSE, FALSE)
  /\ UNCHANGED tafsirBody

LoadAndPlayAudioFile(chapter) ==
  Launch("loadAndPlayAudioFile", loadAndPlayAudioFile(audioPlayerState, chapter))

SetReciterAndPauseAudio(reciter) ==
  Launch("setReciterAndPauseAudio",
         setReciterAndPauseAudio(audioPlayerState, reciter))

PlayFrom(timestamp, chapterId, reciterId) ==
  Launch("playFrom", playFrom(audioPlayerState, timestamp, chapterId, reciterId))

(* --------------------------- fetches settle ---------------------------- *)
\* pending without its i-th thunk; when that fetch resolved, the thunks
\* dispatched before it are marked as overtaken
Settled(i, resolved) ==
  [j \in 1..(Len(pending) - 1) |->
     IF j < i THEN [pending[j] EXCEPT !.overtaken = @ \/ resolved]
     ELSE pending[j + 1]]

\* the code after the await of the suspended thunk req
Resume(state, req) ==
  LET audioFile == getChapterAudioFile(req.reciterId, req.chapterId)
  IN CASE req.thunk = "loadAndPlayAudioFile" ->
            loadAndPlayAudioFileResume(state, audioFile)
       [] req.thunk = "setReciterAndPauseAudio" ->
            setReciterAndPauseAudioResume(state, audioFile)
       [] req.thunk = "playFrom" ->
            playFromResume(state, audioFile, req.timestamp)

\* the i-th suspended thunk is the one the last step suspended
IssuedByLastStep(i) == lastStep.phase = "awaiting" /\ i = Len(pending)

\* a resolution that drops the result of an overtaken fetch
ResolveFetchDroppingStale(i) ==
  LET req == pending[i]
      ctx == IF req.overtaken
             THEN [state |-> audioPlayerState, calls |-> <<>>]
             ELSE Resume(audioPlayerState, req)
  IN /\ audioPlayerState' = ctx.state
     /\ pending' = Settled(i, TRUE)
     /\ lastStep' = Step(req.thunk, "resumed", ctx.calls, req.overtaken,
                         IssuedByLastStep(i))
     /\ UNCHANGED tafsirBody

\* the fetch of the i-th suspended thunk resolves
ResolveFetch(i) ==
  LET req == pending[i]
      ctx == Resume(audioPlayerState, req)
  IN /\ audioPlayerState' = ctx.state
     /\ pending' = Settled(i, TRUE)
     /\ lastStep' = Step(req.thunk, "resumed", ctx.calls, req.overtaken,
                         IssuedByLastStep(i))
     /\ UNCHANGED tafsirBody

\* a rejection after which the status is put back to NoFile
RejectFetchRevertingStatus(i) ==
  LET req == pending[i]
  IN /\ pending' = Settled(i, FALSE)
     /\ lastStep' = Step(req.thunk, "rejected", <<>>, req.overtaken,
                         IssuedByLastStep(i))
     /\ audioPlayerState' = setAudioStatus(audioPlayerState, "NoFile")
     /\ UNCHANGED tafsirBody

\* the fetch of the i-th suspended thunk rejects: the thunk ends there
RejectFetch(i) ==
  LET req == pending[i]
  IN /\ pending' = Settled(i, FALSE)
     /\ lastStep' = Step(req.thunk, "rejected", <<>>, req.overtaken,
                         IssuedByLastStep(i))
     /\ UNCHANGED <<audioPlayerState, tafsirBody>>

\* the thunks, their fetches and the reducers that write a field a thunk
\* reads or writes (reciter, audioFile, audioFileStatus)
ThunkNext ==
  \/ DispatchSetReciter
  \/ DispatchSetAudioFile
  \/ DispatchSetAudioStatus
  \/ DispatchResetAudioFile
  \/ DispatchResetSettings
  \/ \E chapter \in Chapters : LoadAndPlayAudioFile(chapter)
  \/ \E reciter \in Reciters : SetReciterAndPauseAudio(reciter)
  \/ \E timestamp \in Timestamps, chapterId \in Chapters, reciter \in Reciters :
       PlayFrom(timestamp, chapterId, reciter.id)
  \/ \E i \in 1..Len(pending) : ResolveFetch(i)
  \/ \E i \in 1..Len(pending) : RejectFetch(i)

\* every operation of the slice: ThunkNext and the setters of the three
\* flags no thunk reads
Next ==
  \/ ThunkNext
  \/ DispatchSetIsPlaying
  \/ DispatchSetIsMobileMinimizedForScrolling
  \/ DispatchSetEnableAutoScrolling

Spec == Init /\ [][Next]_vars

\* the slice with the three flags left at their initial values
ThunkSpec == Init /\ [][ThunkNext]_vars

\* some pending fetch resolves
ResolveSomeFetch == \E i \in 1..Len(pending) : ResolveFetch(i)

\* the provider answers: a fetch that stays pending eventually resolves
FairThunkSpec == ThunkSpec /\ WF_vars(ResolveSomeFetch)

(* ------------------------- the tafsir reader --------------------------- *)
\* TafsirBody keeps the selected chapter and verse as strings and hands
\* numbers to the url and verse key helpers. A JavaScript number is
\* JsNumber(n), a string JsString(chars), chars a sequence of characters.
MaxTafsirChapter == 11

MaxVerse == 3

TafsirChapters == 1..MaxTafsirChapter

Verses == 1..MaxVerse

\* the slugs of the tafsirs offered by LanguageAndTafsirSelection
Tafsirs == {"en-tafisr-ibn-kathir", "ar-tafsir-al-tabari"}

JsNumber(n) == [type |-> "number", n |-> n]

JsString(chars) == [type |-> "string", chars |-> chars]

DigitChars == <<"0", "1", "2", "3", "4", "5", "6", "7", "8", "9">>

\* the decimal digits of a natural number, most significant first
RECURSIVE Digits(_)
Digits(n) ==
  IF n < 10 THEN <<DigitChars[n + 1]>>
  ELSE Append(Digits(n \div 10), DigitChars[(n % 10) + 1])

DigitOf(char) == CHOOSE d \in 0..9 : DigitChars[d + 1] = char

\* the number a sequence of decimal digits denotes
RECURSIVE ParseDigits(_)
ParseDigits(chars) ==
  IF chars = <<>> THEN 0
  ELSE 10 * ParseDigits(SubSeq(chars, 1, Len(chars) - 1))
         + DigitOf(chars[Len(chars)])

\* JavaScript's Number(value), for a number or a string of digits
Number(value) ==
  IF value.type = "number" THEN value ELSE JsNumber(ParseDigits(value.chars))

\* JavaScript's String(value) and value.toString()
String(value) ==
  IF value.type = "string" THEN value ELSE JsString(Digits(value.n))

\* `${chapterNumber}:${verseNumber}`
makeVerseKey(chapterNumber, verseNumber) ==
  JsString(Digits(chapterNumber.n) \o <<":">> \o Digits(verseNumber.n))

\* the url of a verse's tafsir, given by the three values it is made of
getVerseSelectedTafsirNavigationUrl(chapterId, verseNumber, tafsirIdOrSlug) ==
  [chapterId |-> chapterId, verseNumber |-> verseNumber,
   tafsirIdOrSlug |-> tafsirIdOrSlug]

\* the key the tafsir content is fetched by (lang, quranFont and mushafLines
\* are fixed here)
makeTafsirContentUrl(tafsirIdOrSlug, verseKey) ==
  [tafsirIdOrSlug |-> tafsirIdOrSlug, verseKey |-> verseKey]

\* fakeNavigate(url, lang): the address bar shows url
fakeNavigate(body, url) == [body EXCEPT !.location = url]

\* the state hooks of a TafsirBody right after it is mounted with its props
mountTafsirBody(initialChapterId, initialVerseNumber, initialTafsirIdOrSlug) ==
  [selectedChapterId |-> initialChapterId,
   selectedVerseNumber |-> initialVerseNumber,
   selectedTafsirIdOrSlug |-> initialTafsirIdOrSlug,
   location |-> null,
   handler |-> "mount"]

selectedVerseKey(body) ==
  makeVerseKey(Number(body.selectedChapterId), Number(body.selectedVerseNumber))

\* the queryKey of the DataFetcher
queryKey(body) ==
  makeTafsirContentUrl(body.selectedTafsirIdOrSlug, selectedVerseKey(body))

onTafsirSelected(body, slug) ==
  LET selected == [body EXCEPT !.selectedTafsirIdOrSlug = slug,
                               !.handler = "onTafsirSelected"]
  IN fakeNavigate(selected,
       getVerseSelectedTafsirNavigationUrl(Number(body.selectedChapterId),
                                           Number(body.selectedVerseNumber),
                                           slug))

\* lastVerseNumber: the number of the last verse of the group on display
loadNextVerseGroup(body, lastVerseNumber) ==
  LET newVerseNumber == String(JsNumber(Number(lastVerseNumber).n + 1))
      navigated ==
        fakeNavigate(body,
          getVerseSelectedTafsirNavigationUrl(Number(body.selectedChapterId),
                                              Number(newVerseNumber),
                                              body.selectedTafsirIdOrSlug))
  IN [navigated EXCEPT !.selectedVerseNumber = newVerseNumber,
                       !.handler = "loadNextVerseGroup"]

\* firstVerseNumber: the number of the first verse of the group on display
loadPrevVerseGroup(body, firstVerseNumber) ==
  LET newVerseNumber == String(JsNumber(Number(firstVerseNumber).n - 1))
      navigated ==
        fakeNavigate(body,
          getVerseSelectedTafsirNavigationUrl(Number(body.selectedChapterId),
                                              Number(newVerseNumber),
                                              body.selectedTafsirIdOrSlug))
  IN [navigated EXCEPT !.selectedVerseNumber = newVerseNumber,
                       !.handler = "loadPrevVerseGroup"]

\* an onChapterIdChange that keeps the selected verse number
onChapterIdChangeKeepingVerse(body, newChapterId) ==
  LET navigated ==
        fakeNavigate(body,
          getVerseSelectedTafsirNavigationUrl(Number(newChapterId),
                                              Number(body.selectedVerseNumber),
                                              body.selectedTafsirIdOrSlug))
  IN [navigated EXCEPT !.selectedChapterId = String(newChapterId),
                       !.handler = "onChapterIdChange"]

onChapterIdChange(body, newChapterId) ==
  LET navigated ==
        fakeNavigate(body,
          getVerseSelectedTafsirNavigationUrl(Number(newChapterId),
                                              Number(JsNumber(1)),
                                              body.selectedTafsirIdOrSlug))
  IN [navigated EXCEPT !.selectedChapterId = String(newChapterId),
                       !.selectedVerseNumber = JsString(<<"1">>),
                       !.handler = "onChapterIdChange"]

onVerseNumberChange(body, newVerseNumber) ==
  LET selected == [body EXCEPT !.selectedVerseNumber = newVerseNumber,
                               !.handler = "onVerseNumberChange"]
  IN fakeNavigate(selected,
       getVerseSelectedTafsirNavigationUrl(Number(body.selectedChapterId),
                                           Number(newVerseNumber),
                                           body.selectedTafsirIdOrSlug))

\* the values a chapter selection hands over: the id as a number or a string
ChapterIdValues(chapter) == {JsNumber(chapter), String(JsNumber(chapter))}

\* a TafsirBody is mounted with a chapter, a verse and a tafsir; the audio
\* player is left in its initial state
TafsirInit ==
  /\ audioPlayerState = initialState
  /\ pending = <<>>
  /\ lastStep = ReducerStep("init")
  /\ \E chapter \in TafsirChapters, verse \in Verses, tafsir \in Tafsirs :
       tafsirBody = mountTafsirBody(String(JsNumber(chapter)),
                                    String(JsNumber(verse)), tafsir)

OnTafsirSelected(slug) ==
  /\ tafsirBody' = onTafsirSelected(tafsirBody, slug)
  /\ UNCHANGED <<audioPlayerState, pending, lastStep>>

\* the tafsir on display covers the verses firstVerse..lastVerse, the selected
\* one among them; the button is shown when hasNextVerseGroup
LoadNextVerseGroup(firstVerse, lastVerse) ==
  /\ firstVerse <= Number(tafsirBody.selectedVerseNumber).n
  /\ Number(tafsirBody.selectedVerseNumber).n <= lastVerse
  /\ lastVerse # MaxVerse
  /\ tafsirBody' = loadNextVerseGroup(tafsirBody, String(JsNumber(lastVerse)))
  /\ UNCHANGED <<audioPlayerState, pending, lastStep>>

\* the button is shown when hasPrevVerseGroup
LoadPrevVerseGroup(firstVerse, lastVerse) ==
  /\ firstVerse <= Number(tafsirBody.selectedVerseNumber).n
  /\ Number(tafsirBody.selectedVerseNumber).n <= lastVerse
  /\ firstVerse # 1
  /\ tafsirBody' = loadPrevVerseGroup(tafsirBody, String(JsNumber(firstVerse)))
  /\ UNCHANGED <<audioPlayerState, pending, lastStep>>

OnChapterIdChange(newChapterId) ==
  /\ tafsirBody' = onChapterIdChange(tafsirBody, newChapterId)
  /\ UNCHANGED <<audioPlayerState, pending, lastStep>>

OnVerseNumberChange(newVerseNumber) ==
  /\ tafsirBody' = onVerseNumberChange(tafsirBody, newVerseNumber)
  /\ UNCHANGED <<audioPlayerState, pending, lastStep>>

TafsirNext ==
  \/ \E slug \in Tafsirs : OnTafsirSelected(slug)
  \/ \E firstVerse \in Verses, lastVerse \in Verses :
       LoadNextVerseGroup(firstVerse, lastVerse)
  \/ \E firstVerse \in Verses, lastVerse \in Verses :
       LoadPrevVerseGroup(firstVerse, lastVerse)
  \/ \E chapter \in TafsirChapters :
       \E newChapterId \in ChapterIdValues(chapter) :
         OnChapterIdChange(newChapterId)
  \/ \E verse \in Verses : OnVerseNumberChange(String(JsNumber(verse)))

TafsirSpec == TafsirInit /\ [][TafsirNext]_vars

(* ------------------------------ properties ----------------------------- *)
\* the positions of the calls named name in a step's calls
Positions(calls, name) == {k \in DOMAIN calls : calls[k].call = name}

CountCalls(calls, name) == Cardinality(Positions(calls, name))

\* every call named a comes before every call named b
Precedes(calls, a, b) ==
  \A i \in Positions(calls, a), j \in Positions(calls, b) : i < j

\* the calls of the trigger surface
TriggerCalls == {"triggerPlayAudio", "triggerPauseAudio", "triggerSetCurrentTime"}

NoTriggerCall(calls) == \A k \in DOMAIN calls : calls[k].call \notin TriggerCalls

\* the audio file of chapter is loaded
Loaded(chapter) ==
  /\ audioPlayerState.audioFile # null
  /\ audioPlayerState.audioFile.chapterId = chapter

\* the file the fetch of a suspended thunk resolves with
FetchedFile(req) == getChapterAudioFile(req.reciterId, req.chapterId)

\* C1 as stated: in every reachable state audioFileStatus is NoFile if and
\* only if audioFile is null.
C1_NoFileIffAbsent ==
  (audioPlayerState.audioFileStatus = "NoFile")
    <=> (audioPlayerState.audioFile = null)

\* C1 (amended): in the initial state and right after every resetAudioFile the
\* status is NoFile and audioFile is null; the other steps do not keep the
\* two in step.
C1_NoFileAndAbsentAfterReset ==
  lastStep.op \in {"init", "resetAudioFile"} =>
    /\ audioPlayerState.audioFileStatus = "NoFile"
    /\ audioPlayerState.audioFile = null

\* resetAudioFile was applied while a fetch started with a loaded file was
\* in flight
C1_Witness ==
  /\ lastStep.op = "resetAudioFile"
  /\ Len(pending) > 0
  /\ pending[1].thunk = "setReciterAndPauseAudio"

\* loadAndPlay(chapter) from a state without the file of chapter: the status
\* becomes Loading and nothing else of the state changes, one fetch is issued,
\* for the current reciter's id and chapter, and play is not invoked yet
C2_Launch(chapter) ==
  (LoadAndPlayAudioFile(chapter) /\ ~Loaded(chapter)) =>
    /\ audioPlayerState' =
         [audioPlayerState EXCEPT !.audioFileStatus = "Loading"]
    /\ Len(pending') = Len(pending) + 1
    /\ pending'[Len(pending')].reciterId = audioPlayerState.reciter.id
    /\ pending'[Len(pending')].chapterId = chapter
    /\ CountCalls(lastStep'.calls, "getChapterAudioFile") = 1
    /\ \A k \in Positions(lastStep'.calls, "getChapterAudioFile") :
         /\ lastStep'.calls[k].reciterId = audioPlayerState.reciter.id
         /\ lastStep'.calls[k].chapterId = chapter
    /\ NoTriggerCall(lastStep'.calls)

\* the fetch of that loadAndPlay resolves with no step in between: audioFile
\* is the fetched file, the status is status, no fetch is issued and play is
\* invoked once, after audioFile was set
C2_Settle(i, status) ==
  (/\ ResolveFetch(i)
   /\ IssuedByLastStep(i)
   /\ pending[i].thunk = "loadAndPlayAudioFile") =>
    /\ audioPlayerState' =
         [audioPlayerState EXCEPT !.audioFile = FetchedFile(pending[i]),
                                  !.audioFileStatus = status]
    /\ Len(pending') = Len(pending) - 1
    /\ CountCalls(lastStep'.calls, "getChapterAudioFile") = 0
    /\ CountCalls(lastStep'.calls, "setAudioFile") = 1
    /\ CountCalls(lastStep'.calls, "triggerPlayAudio") = 1
    /\ Precedes(lastStep'.calls, "setAudioFile", "triggerPlayAudio")

C3_LoadedChapterPlaysDirectly ==
  [][\A chapter \in Chapters :
       (/\ lastStep'.op = "loadAndPlayAudioFile"
        /\ LoadAndPlayAudioFile(chapter)
        /\ Loaded(chapter)) =>
         /\ audioPlayerState' = audioPlayerState
         /\ pending' = pending
         /\ lastStep'.calls = <<[call |-> "triggerPlayAudio"]>>]_vars

\* loadAndPlay played a loaded file of a reciter other than the current one
\* while the status was NoFile and isPlaying was set
C3_Witness ==
  /\ lastStep.op = "loadAndPlayAudioFile"
  /\ lastStep.phase = "done"
  /\ audioPlayerState.isPlaying
  /\ audioPlayerState.audioFile # null
  /\ audioPlayerState.audioFile.reciterId # audioPlayerState.reciter.id
  /\ audioPlayerState.audioFileStatus = "NoFile"

\* setReciterAndPause(reciter) with an audio file loaded: the reciter is
\* reciter, the status Loading, and the fetch is for the loaded chapter
C4_Launch(reciter) ==
  (SetReciterAndPauseAudio(reciter) /\ audioPlayerState.audioFile # null) =>
    /\ audioPlayerState' =
         [audioPlayerState EXCEPT !.audioFileStatus = "Loading",
                                  !.reciter = reciter]
    /\ pending'[Len(pending')].reciterId = reciter.id
    /\ pending'[Len(pending')].chapterId = audioPlayerState.audioFile.chapterId

\* its fetch resolves with no step in between: the reciter is the requested
\* one, the audio file is of the same chapter as before and the status is
\* status
C4_Settle(i, status) ==
  (/\ ResolveFetch(i)
   /\ IssuedByLastStep(i)
   /\ pending[i].thunk = "setReciterAndPauseAudio") =>
    /\ audioPlayerState'.reciter = audioPlayerState.reciter
    /\ audioPlayerState'.reciter.id = pending[i].reciterId
    /\ audioPlayerState.audioFile # null
    /\ audioPlayerState'.audioFile # null
    /\ audioPlayerState'.audioFile.chapterId =
         audioPlayerState.audioFile.chapterId
    /\ audioPlayerState'.audioFileStatus = status

C5_ReciterChangeOrder ==
  [][/\ \A reciter \in Reciters :
          (/\ SetReciterAndPauseAudio(reciter)
           /\ audioPlayerState.audioFile # null) =>
            /\ lastStep'.calls =
                 <<[call |-> "setAudioStatus", status |-> "Loading"],
                   [call |-> "triggerPauseAudio"],
                   [call |-> "setReciter", reciter |-> reciter],
                   [call |-> "getChapterAudioFile", reciterId |-> reciter.id,
                    chapterId |-> audioPlayerState.audioFile.chapterId]>>
            /\ audioPlayerState'.audioFile = audioPlayerState.audioFile
     /\ \A i \in 1..Len(pending) :
          (/\ ResolveFetch(i)
           /\ pending[i].thunk = "setReciterAndPauseAudio") =>
            /\ lastStep'.calls =
                 <<[call |-> "setAudioFile",
                    audioFile |-> FetchedFile(pending[i])]>>
            /\ audioPlayerState'.audioFile = FetchedFile(pending[i])]_vars

\* setReciterAndPause has issued its fetch for another reciter than the one
\* of the loaded file
C5_Witness ==
  /\ lastStep.op = "setReciterAndPauseAudio"
  /\ lastStep.phase = "awaiting"
  /\ Len(lastStep.calls) = 4
  /\ audioPlayerState.audioFile # null
  /\ audioPlayerState.audioFile.reciterId # audioPlayerState.reciter.id

\* seconds is timestamp / 1000
IsSecondsOf(seconds, timestamp) ==
  /\ seconds.millis \in 0..999
  /\ seconds.whole * 1000 + seconds.millis = timestamp

\* calls holds one setCurrentTime, with timestamp / 1000, and one play, the
\* setCurrentTime first
SeeksThenPlays(calls, timestamp) ==
  /\ CountCalls(calls, "triggerSetCurrentTime") = 1
  /\ CountCalls(calls, "triggerPlayAudio") = 1
  /\ Precedes(calls, "triggerSetCurrentTime", "triggerPlayAudio")
  /\ \A k \in Positions(calls, "triggerSetCurrentTime") :
       IsSecondsOf(calls[k].seconds, timestamp)

\* playFrom fetches: the file is absent, of another chapter, or the current
\* reciter is not reciterId
PlayFromFetches(chapterId, reciterId) ==
  ~(Loaded(chapterId) /\ audioPlayerState.reciter.id = reciterId)

\* C6: a playFrom(t, chapterId, reciterId) that runs to completion invokes
\* setCurrentTime once, with t / 1000 seconds, and play once, setCurrentTime
\* first, in the branch that fetches and in the one that does not; in the
\* fetching branch neither is invoked before the fetch resolved and audioFile
\* was set.
C6_SeekBeforePlay ==
  [][/\ \A t \in Timestamps, c \in Chapters, r \in Reciters :
          PlayFrom(t, c, r.id) =>
            IF PlayFromFetches(c, r.id)
            THEN /\ NoTriggerCall(lastStep'.calls)
                 /\ lastStep'.phase = "awaiting"
                 /\ audioPlayerState'.audioFile = audioPlayerState.audioFile
            ELSE /\ SeeksThenPlays(lastStep'.calls, t)
                 /\ lastStep'.phase = "done"
     /\ \A i \in 1..Len(pending) :
          (ResolveFetch(i) /\ pending[i].thunk = "playFrom") =>
            /\ SeeksThenPlays(lastStep'.calls, pending[i].timestamp)
            /\ CountCalls(lastStep'.calls, "setAudioFile") = 1
            /\ Precedes(lastStep'.calls, "setAudioFile",
                        "triggerSetCurrentTime")
            /\ audioPlayerState'.audioFile = FetchedFile(pending[i])]_vars

\* a playFrom that fetched has run to completion
C6_Witness ==
  /\ lastStep.op = "playFrom"
  /\ lastStep.phase = "resumed"
  /\ Len(lastStep.calls) = 3
  /\ audioPlayerState.audioFile # null

C8_LastResolvedFetchWins ==
  [][\A i \in 1..Len(pending) :
       ResolveFetch(i) =>
         /\ audioPlayerState'.audioFile = FetchedFile(pending[i])
         /\ lastStep'.stale = pending[i].overtaken]_vars

\* the fetch of an earlier setReciterAndPause resolved after the one of a
\* later setReciterAndPause: the audio file is of another reciter than the
\* one requested last
C8_Witness ==
  /\ lastStep.op = "setReciterAndPauseAudio"
  /\ lastStep.phase = "resumed"
  /\ lastStep.stale
  /\ pending = <<>>
  /\ audioPlayerState.audioFile # null
  /\ audioPlayerState.audioFile.reciterId # audioPlayerState.reciter.id

\* C9: when the fetch of a thunk rejects, the thunk ends there: no field of
\* the state changes (audioFile keeps its value), no call is made (no play,
\* no setCurrentTime), and the status the thunk set stays Loading.
C9_RejectedFetchNoRecovery ==
  [][\A i \in 1..Len(pending) :
       RejectFetch(i) =>
         /\ audioPlayerState' = audioPlayerState
         /\ lastStep'.calls = <<>>
         /\ Len(pending') = Len(pending) - 1
         /\ IssuedByLastStep(i) =>
              audioPlayerState'.audioFileStatus = "Loading"]_vars

\* the fetch of a thunk started without audio file was rejected, no step in
\* between
C9_Witness ==
  /\ lastStep.phase = "rejected"
  /\ lastStep.direct
  /\ audioPlayerState.audioFile = null
  /\ audioPlayerState.audioFileStatus = "Loading"

\* C10: the reset-settings event sets the reciter to the default reciter and
\* leaves the five other fields as they are; it issues no fetch and makes no
\* trigger call, also while a fetch is in flight.
C10_ResetSettingsOnlyReciter ==
  [][(lastStep'.op = "resetSettings" /\ DispatchResetSettings) =>
       /\ audioPlayerState'.reciter = DEFAULT_RECITER
       /\ audioPlayerState'.audioFile = audioPlayerState.audioFile
       /\ audioPlayerState'.audioFileStatus = audioPlayerState.audioFileStatus
       /\ audioPlayerState'.isPlaying = audioPlayerState.isPlaying
       /\ audioPlayerState'.isMobileMinimizedForScrolling =
            audioPlayerState.isMobileMinimizedForScrolling
       /\ audioPlayerState'.enableAutoScrolling =
            audioPlayerState.enableAutoScrolling
       /\ pending' = pending
       /\ lastStep'.calls = <<>>]_vars

\* the settings were reset while the fetch for another reciter was in flight
\* and the player was playing, minimized, without auto scrolling
C10_Witness ==
  /\ lastStep.op = "resetSettings"
  /\ Len(pending) > 0
  /\ pending[1].reciterId # DEFAULT_RECITER.id
  /\ audioPlayerState.audioFileStatus = "Loading"
  /\ audioPlayerState.isPlaying
  /\ audioPlayerState.isMobileMinimizedForScrolling
  /\ ~audioPlayerState.enableAutoScrolling

(* ---------------------- reducers, field by field ----------------------- *)
\* C11: resetAudioFile, from every state, leaves audioFile absent and the
\* status NoFile, leaves the four other fields as they are, issues no fetch,
\* cancels none and makes no trigger call (it does not pause); applied to
\* its own result it changes nothing, so twice in a row is as once.
C11_ResetAudioFileFrameIdempotent ==
  [][(lastStep'.op = "resetAudioFile" /\ DispatchResetAudioFile) =>
       /\ audioPlayerState'.audioFile = null
       /\ audioPlayerState'.audioFileStatus = "NoFile"
       /\ audioPlayerState'.reciter = audioPlayerState.reciter
       /\ audioPlayerState'.isPlaying = audioPlayerState.isPlaying
       /\ audioPlayerState'.isMobileMinimizedForScrolling =
            audioPlayerState.isMobileMinimizedForScrolling
       /\ audioPlayerState'.enableAutoScrolling =
            audioPlayerState.enableAutoScrolling
       /\ pending' = pending
       /\ NoTriggerCall(lastStep'.calls)
       /\ lastStep'.calls = <<>>
       /\ resetAudioFile(audioPlayerState') = audioPlayerState'
       /\ (lastStep.op = "resetAudioFile" =>
             audioPlayerState' = audioPlayerState)]_vars

\* the file was reset while the player was playing a file of another reciter
\* than the default one, minimized, with no fetch in flight
C11_Witness ==
  /\ lastStep.op = "resetAudioFile"
  /\ pending = <<>>
  /\ audioPlayerState.audioFile = null
  /\ audioPlayerState.audioFileStatus = "NoFile"
  /\ audioPlayerState.isPlaying
  /\ audioPlayerState.isMobileMinimizedForScrolling
  /\ audioPlayerState.reciter # DEFAULT_RECITER

\* new is state with the field replaced by value and every other field kept
ReplacesOnly(state, new, field, value) ==
  /\ DOMAIN new = DOMAIN state
  /\ new[field] = value
  /\ \A other \in DOMAIN state \ {field} : new[other] = state[other]

\* C12: each of the six simple setters is total and replaces exactly one
\* field with its payload: in every reachable state and for every payload,
\* the state it returns has the payload in its field and the five other
\* fields as they were.
C12_SettersReplaceOneField ==
  /\ \A payload \in BOOLEAN :
       /\ ReplacesOnly(audioPlayerState,
                       setIsPlaying(audioPlayerState, payload),
                       "isPlaying", payload)
       /\ ReplacesOnly(audioPlayerState,
                       setIsMobileMinimizedForScrolling(audioPlayerState, payload),
                       "isMobileMinimizedForScrolling", payload)
       /\ ReplacesOnly(audioPlayerState,
                       setEnableAutoScrolling(audioPlayerState, payload),
                       "enableAutoScrolling", payload)
  /\ \A payload \in Reciters :
       ReplacesOnly(audioPlayerState, setReciter(audioPlayerState, payload),
                    "reciter", payload)
  /\ \A payload \in AudioFiles \cup {null} :
       ReplacesOnly(audioPlayerState, setAudioFile(audioPlayerState, payload),
                    "audioFile", payload)
  /\ \A payload \in AudioFileStatus :
       ReplacesOnly(audioPlayerState, setAudioStatus(audioPlayerState, payload),
                    "audioFileStatus", payload)

\* auto scrolling was switched off while the player was playing a loaded
\* file, minimized, with another reciter than the default one
C12_Witness ==
  /\ lastStep.op = "setEnableAutoScrolling"
  /\ ~audioPlayerState.enableAutoScrolling
  /\ audioPlayerState.isMobileMinimizedForScrolling
  /\ audioPlayerState.isPlaying
  /\ audioPlayerState.audioFile # null
  /\ audioPlayerState.audioFileStatus = "Ready"
  /\ audioPlayerState.reciter # DEFAULT_RECITER

\* C13: the slice starts with the status NoFile, no audio file, isPlaying
\* false and the default reciter, and in every reachable state the reciter
\* is a reciter, never null.
C13_ReciterNeverNull ==
  /\ lastStep.op = "init" =>
       /\ audioPlayerState.audioFileStatus = "NoFile"
       /\ audioPlayerState.audioFile = null
       /\ audioPlayerState.isPlaying = FALSE
       /\ audioPlayerState.reciter = DEFAULT_RECITER
  /\ audioPlayerState.reciter # null
  /\ audioPlayerState.reciter \in Reciters

\* setReciterAndPauseAudio threw on the missing file after it had set
\* another reciter than the default one
C13_Witness ==
  /\ lastStep.op = "setReciterAndPauseAudio"
  /\ lastStep.phase = "threw"
  /\ audioPlayerState.reciter # DEFAULT_RECITER
  /\ audioPlayerState.audioFile = null

(* ------------------------- playFrom's branches ------------------------- *)
\* C14 as stated: a playFrom(t, chapterId, reciterId) that takes the
\* fetching branch fetches, and then stores, the file of chapter chapterId
\* and reciter reciterId.
C14_FetchesFileOfArguments ==
  [][\A t \in Timestamps, c \in Chapters, r \in Reciters :
       (/\ lastStep'.op = "playFrom"
        /\ PlayFrom(t, c, r.id)
        /\ PlayFromFetches(c, r.id)) =>
         /\ \A k \in Positions(lastStep'.calls, "getChapterAudioFile") :
              /\ lastStep'.calls[k].chapterId = c
              /\ lastStep'.calls[k].reciterId = r.id
         /\ FetchedFile(pending'[Len(pending')]) = getChapterAudioFile(r.id, c)
    ]_vars

\* C15: playFrom(t, chapterId, reciterId) issues a fetch, and sets the status
\* to Loading, exactly when the file is absent, of another chapter, or the
\* current reciter's id is not reciterId; otherwise it issues no fetch and
\* changes no field of the state. In no branch, before or after the fetch,
\* does playFrom change the reciter.
C15_PlayFromFetchesIff ==
  [][/\ \A t \in Timestamps, c \in Chapters, r \in Reciters :
          (lastStep'.op = "playFrom" /\ PlayFrom(t, c, r.id)) =>
            IF PlayFromFetches(c, r.id)
            THEN /\ CountCalls(lastStep'.calls, "getChapterAudioFile") = 1
                 /\ Len(pending') = Len(pending) + 1
                 /\ lastStep'.phase = "awaiting"
                 /\ audioPlayerState'.audioFileStatus = "Loading"
                 /\ audioPlayerState'.reciter = audioPlayerState.reciter
                 /\ CountCalls(lastStep'.calls, "setReciter") = 0
            ELSE /\ CountCalls(lastStep'.calls, "getChapterAudioFile") = 0
                 /\ pending' = pending
                 /\ lastStep'.phase = "done"
                 /\ audioPlayerState' = audioPlayerState
     /\ \A i \in 1..Len(pending) :
          (ResolveFetch(i) /\ pending[i].thunk = "playFrom") =>
            /\ audioPlayerState'.reciter = audioPlayerState.reciter
            /\ CountCalls(lastStep'.calls, "setReciter") = 0
            /\ CountCalls(lastStep'.calls, "getChapterAudioFile") = 0]_vars

\* playFrom was called for the chapter whose file is loaded and started a
\* fetch all the same: the current reciter was not the one asked for
C15_Witness ==
  /\ lastStep.op = "playFrom"
  /\ lastStep.phase = "awaiting"
  /\ audioPlayerState.audioFile # null
  /\ audioPlayerState.audioFile.chapterId = pending[Len(pending)].chapterId
  /\ audioPlayerState.audioFileStatus = "Loading"

(* ------------------- setReciterAndPauseAudio, no file ------------------ *)
\* C16: setReciterAndPauseAudio(newReciter), called while audioFile is
\* absent, ends with an error, issues no fetch and never sets audioFile; the
\* error comes after the earlier effects, which stay: the status is Loading,
\* pause was invoked, and the reciter is newReciter.
C16_ThrowsAfterEffects ==
  [][\A r \in Reciters :
       (/\ lastStep'.op = "setReciterAndPauseAudio"
        /\ SetReciterAndPauseAudio(r)
        /\ audioPlayerState.audioFile = null) =>
         /\ lastStep'.phase = "threw"
         /\ CountCalls(lastStep'.calls, "getChapterAudioFile") = 0
         /\ pending' = pending
         /\ CountCalls(lastStep'.calls, "setAudioFile") = 0
         /\ audioPlayerState'.audioFile = null
         /\ audioPlayerState'.audioFileStatus = "Loading"
         /\ CountCalls(lastStep'.calls, "triggerPauseAudio") = 1
         /\ audioPlayerState'.reciter = r
         /\ audioPlayerState' =
              [audioPlayerState EXCEPT !.audioFileStatus = "Loading",
                                       !.reciter = r]]_vars

\* the reciter was changed from the initial state, where no file is loaded:
\* the thunk threw after its three calls and left Loading and the new reciter
C16_Witness ==
  /\ lastStep.op = "setReciterAndPauseAudio"
  /\ lastStep.phase = "threw"
  /\ Len(lastStep.calls) = 3
  /\ pending = <<>>
  /\ audioPlayerState.audioFileStatus = "Loading"
  /\ audioPlayerState.reciter = [id |-> 1]
  /\ audioPlayerState.audioFile = null
  /\ audioPlayerState.isPlaying = initialState.isPlaying

(* ------------------ resetAudioFile and a pending fetch ----------------- *)
\* C17: resetAudioFile does not cancel a pending fetch. It leaves the
\* suspended thunks as they are, and when a fetch started before the reset
\* resolves right after it, audioFile becomes the fetched file, a
\* loadAndPlayAudioFile or playFrom still invokes play, and the status is
\* still the NoFile the reset set.
C17_ResetDoesNotCancelFetch ==
  [][/\ (lastStep'.op = "resetAudioFile" /\ DispatchResetAudioFile) =>
          pending' = pending
     /\ \A i \in 1..Len(pending) :
          (lastStep.op = "resetAudioFile" /\ ResolveFetch(i)) =>
            /\ lastStep'.afterReset
            /\ audioPlayerState'.audioFile = FetchedFile(pending[i])
            /\ audioPlayerState'.audioFileStatus = "NoFile"
            /\ pending[i].thunk \in {"loadAndPlayAudioFile", "playFrom"} =>
                 /\ CountCalls(lastStep'.calls, "triggerPlayAudio") = 1
                 /\ Precedes(lastStep'.calls, "setAudioFile",
                             "triggerPlayAudio")]_vars

\* a loadAndPlayAudioFile resumed right after a resetAudioFile: it stored its
\* file and invoked play, and the status is NoFile
C17_Witness ==
  /\ lastStep.afterReset
  /\ lastStep.op = "loadAndPlayAudioFile"
  /\ lastStep.phase = "resumed"
  /\ CountCalls(lastStep.calls, "triggerPlayAudio") = 1
  /\ audioPlayerState.audioFile # null
  /\ audioPlayerState.audioFileStatus = "NoFile"

(* ------------------------- tafsir: chapter change ---------------------- *)
\* C18: every onChapterIdChange(newChapterId) sets the selected chapter to
\* newChapterId, resets the selected verse number to 1 whatever verse was
\* selected, and leaves the selected tafsir unchanged; the url it navigates
\* to is the one for (newChapterId, verse 1, selected tafsir), and the verse
\* key the tafsir content is fetched by afterwards is newChapterId:1.
C18_ChapterChangeResetsVerse ==
  [][\A chapter \in TafsirChapters :
       \A newChapterId \in ChapterIdValues(chapter) :
         OnChapterIdChange(newChapterId) =>
           /\ tafsirBody'.selectedChapterId = JsString(Digits(chapter))
           /\ Number(tafsirBody'.selectedChapterId) = JsNumber(chapter)
           /\ tafsirBody'.selectedVerseNumber = JsString(<<"1">>)
           /\ Number(tafsirBody'.selectedVerseNumber) = JsNumber(1)
           /\ tafsirBody'.selectedTafsirIdOrSlug =
                tafsirBody.selectedTafsirIdOrSlug
           /\ tafsirBody'.location =
                [chapterId |-> JsNumber(chapter), verseNumber |-> JsNumber(1),
                 tafsirIdOrSlug |-> tafsirBody.selectedTafsirIdOrSlug]
           /\ selectedVerseKey(tafsirBody') =
                JsString(Digits(chapter) \o <<":", "1">>)
           /\ queryKey(tafsirBody') =
                [tafsirIdOrSlug |-> tafsirBody.selectedTafsirIdOrSlug,
                 verseKey |-> JsString(Digits(chapter) \o <<":", "1">>)]]_vars

\* chapter 11 was selected: the verse is 1 and the address bar shows the url
\* of 11:1 for the selected tafsir
C18_Witness ==
  /\ tafsirBody # null
  /\ tafsirBody.handler = "onChapterIdChange"
  /\ tafsirBody.selectedChapterId = JsString(<<"1", "1">>)
  /\ tafsirBody.selectedVerseNumber = JsString(<<"1">>)
  /\ tafsirBody.selectedTafsirIdOrSlug = "ar-tafsir-al-tabari"
  /\ tafsirBody.location.chapterId = JsNumber(11)

====
